---------------------------- MODULE Spec2Model ----------------------------
(***************************************************************************)
(* A model of the GastroTartarus front-end: the paginated pages and the    *)
(* suggestions page (URL search parameters, local controls, list queries), *)
(* the mutations of the dialogs with the query-cache invalidation they     *)
(* perform, the service operations the screens offer, the formatTime       *)
(* helpers, the suggestion card, the dialogs with their forms and request  *)
(* bodies, and the removal of a recipe ingredient.                         *)
(*                                                                         *)
(* Numbers that are fractions of 1 in the source (match_score,             *)
(* min_match_score) are held in thousandths: 0.3 is 300, 1 is ScoreScale.  *)
(***************************************************************************)
EXTENDS Integers, Sequences, FiniteSets, TLC

---------------------------------------------------------------------------
(* Program constants *)

PER_PAGE == 10

DAYS_AHEAD == 7

ScoreScale == 10 * 100

DEFAULT_MIN_MATCH_SCORE == (3 * ScoreScale) \div 10

DEFAULT_LIMIT == 10

MAX_LIMIT == 50

(* Bounds of the model *)

MaxMinutes == 130

MaxRows == 11

MaxPending == 1

MaxEntities == 1

\* The most ingredients a suggested recipe has.
MaxIngredients == 3

\* The most submits of the dialogs in one run.
MaxSubmits == 2

\* The most characters typed into a numeric field.
MaxLen == 2

\* The largest page number, of either sign, typed into the address bar.
MaxPage == 3

\* The last day, counted from the first, of an expiration date or of today.
MaxDay == 9

\* The most fields of a form that differ from what the form opened with.
MaxEdits == 2

---------------------------------------------------------------------------
VARIABLES
    minutes,        \* formatTime: the argument
    cell,           \* formatTime: what each of the three copies returned
    route,          \* the mounted page
    url,            \* the search parameters of the address bar, unvalidated
    searchInput,    \* useState(search) of IngredientsTable / RecipesTable
    minMatchScore,  \* useState(min_match_score) of SuggestionsContent
    maxResults,     \* useState(limit) of SuggestionsContent
    cache,          \* query cache of the mounted page: key -> response
    inflight,       \* requests of the mounted page not answered yet: key -> request
    lastKey,        \* the observer's last query with defined data (placeholderData)
    queries,        \* query cache, by key: "absent", "fresh" or "invalidated"
    pending,        \* the mutations submitted and not settled
    toast,          \* what the last settled mutation reported: success toast or handleError
    store,          \* the service's entities, by kind and id
    seen,           \* the entities the screens have read, by kind
    suggestion,     \* RecipeSuggestionCard: the suggestion prop
    badge,          \* RecipeSuggestionCard: the match badge rendered
    progress,       \* RecipeSuggestionCard: the progress bar rendered
    isOpen,         \* useState(false) of each dialog
    form,           \* the values of each dialog's form
    calls,          \* the requests of each mutation sent and not settled
    toasts,         \* showSuccessToast calls so far
    errors,         \* handleError calls so far
    dialog,         \* the dialog whose form is filled in
    entity,         \* the recipe or ingredient prop of an Edit dialog
    formData,       \* the values of the form, as react-hook-form holds them
    sent,           \* the request the last step sent, if any
    confirmed,      \* RecipeIngredients: the last window.confirm and its answer
    deletes,        \* RecipeIngredients: the rows whose delete request is out
    expirationDate, \* PantryTable: the expiration_date of a row, if it has one
    today,          \* PantryTable: the instants new Date() returned in the last render
    badges          \* PantryTable: the badges rendered in the row's cell

fmtVars == <<minutes, cell>>

pageVars == <<route, url, searchInput, minMatchScore, maxResults, cache, inflight, lastKey>>

cacheVars == <<queries, pending, toast>>

crudVars == <<store, seen>>

cardVars == <<suggestion, badge, progress>>

dialogVars == <<isOpen, form, calls, toasts, errors>>

formVars == <<dialog, entity, formData, sent>>

deleteVars == <<confirmed, deletes>>

pantryVars == <<expirationDate, today, badges>>

vars == <<minutes, cell, route, url, searchInput, minMatchScore, maxResults,
          cache, inflight, lastKey, queries, pending, toast, store, seen,
          suggestion, badge, progress, isOpen, form, calls, toasts, errors,
          dialog, entity, formData, sent, confirmed, deletes,
          expirationDate, today, badges>>

\* Each part of the model leaves the state of the other parts alone.
FormatOnly == UNCHANGED <<pageVars, cacheVars, crudVars, cardVars, dialogVars, formVars, deleteVars, pantryVars>>

PagesOnly == UNCHANGED <<fmtVars, cacheVars, crudVars, cardVars, dialogVars, formVars, deleteVars, pantryVars>>

CacheOnly == UNCHANGED <<fmtVars, pageVars, crudVars, cardVars, dialogVars, formVars, deleteVars, pantryVars>>

CrudOnly == UNCHANGED <<fmtVars, pageVars, cacheVars, cardVars, dialogVars, formVars, deleteVars, pantryVars>>

CardOnly == UNCHANGED <<fmtVars, pageVars, cacheVars, crudVars, dialogVars, formVars, deleteVars, pantryVars>>

DialogOnly == UNCHANGED <<fmtVars, pageVars, cacheVars, crudVars, cardVars, formVars, deleteVars, pantryVars>>

FormOnly == UNCHANGED <<fmtVars, pageVars, cacheVars, crudVars, cardVars, dialogVars, deleteVars, pantryVars>>

\* RecipeIngredients changes its own state, the query cache and the toasts.
DeleteOnly ==
    UNCHANGED <<fmtVars, pageVars, crudVars, cardVars, formVars, isOpen, form, calls,
                pending, toast, pantryVars>>

PantryOnly ==
    UNCHANGED <<fmtVars, pageVars, cacheVars, crudVars, cardVars, dialogVars, formVars,
                deleteVars>>

---------------------------------------------------------------------------
(* JavaScript values: one record shape, so that any two can be compared. *)

JNum(n) == [t |-> "number", n |-> n, s |-> "", b |-> FALSE]

JStr(s) == [t |-> "string", n |-> 0, s |-> s, b |-> FALSE]

JBool(b) == [t |-> "boolean", n |-> 0, s |-> "", b |-> b]

JNull == [t |-> "null", n |-> 0, s |-> "", b |-> FALSE]

JUndefined == [t |-> "undefined", n |-> 0, s |-> "", b |-> FALSE]

\* !v
Falsy(v) ==
    \/ v.t \in {"null", "undefined"}
    \/ v.t = "number" /\ v.n = 0
    \/ v.t = "string" /\ v.s = ""
    \/ v.t = "boolean" /\ ~v.b

---------------------------------------------------------------------------
(* formatTime, three copies *)

\* A copy with the hour boundary off by one: 60 is still printed in minutes.
formatTime_recipes_le(m) ==
    IF Falsy(m) THEN JStr("N/A")
    ELSE IF m.n <= 60 THEN JStr(ToString(m.n) \o "m")
    ELSE LET hours == m.n \div 60
             remainingMinutes == m.n % 60
         IN  IF remainingMinutes > 0
             THEN JStr(ToString(hours) \o "h " \o ToString(remainingMinutes) \o "m")
             ELSE JStr(ToString(hours) \o "h")

\* routes/_layout/recipes.tsx
formatTime_recipes(m) ==
    IF Falsy(m) THEN JStr("N/A")
    ELSE IF m.n < 60 THEN JStr(ToString(m.n) \o "m")
    ELSE LET hours == m.n \div 60
             remainingMinutes == m.n % 60
         IN  IF remainingMinutes > 0
             THEN JStr(ToString(hours) \o "h " \o ToString(remainingMinutes) \o "m")
             ELSE JStr(ToString(hours) \o "h")

\* routes/_layout/recipes.$id.tsx
formatTime_recipeDetail(m) ==
    IF Falsy(m) THEN JNull
    ELSE IF m.n < 60 THEN JStr(ToString(m.n) \o "m")
    ELSE LET hours == m.n \div 60
             remainingMinutes == m.n % 60
         IN  IF remainingMinutes > 0
             THEN JStr(ToString(hours) \o "h " \o ToString(remainingMinutes) \o "m")
             ELSE JStr(ToString(hours) \o "h")

\* RecipeSuggestionCard of the suggestions page
formatTime_suggestionCard(m) ==
    IF Falsy(m) THEN JNull
    ELSE IF m.n < 60 THEN JStr(ToString(m.n) \o "m")
    ELSE LET hours == m.n \div 60
             remainingMinutes == m.n % 60
         IN  IF remainingMinutes > 0
             THEN JStr(ToString(hours) \o "h " \o ToString(remainingMinutes) \o "m")
             ELSE JStr(ToString(hours) \o "h")

\* minutes: number | null | undefined
MinutesValues == {JNum(n) : n \in 0..MaxMinutes} \cup {JNull, JUndefined}

NotCalled == [t |-> "not called", n |-> 0, s |-> "", b |-> FALSE]

FormatInit ==
    /\ minutes \in MinutesValues
    /\ cell = [list |-> NotCalled, detail |-> NotCalled, card |-> NotCalled]

FormatOff ==
    /\ minutes = JUndefined
    /\ cell = [list |-> NotCalled, detail |-> NotCalled, card |-> NotCalled]

CallFormatTimeList ==
    /\ FormatOnly
    /\ cell.list = NotCalled
    /\ cell' = [cell EXCEPT !.list = formatTime_recipes(minutes)]
    /\ UNCHANGED minutes

CallFormatTimeDetail ==
    /\ FormatOnly
    /\ cell.detail = NotCalled
    /\ cell' = [cell EXCEPT !.detail = formatTime_recipeDetail(minutes)]
    /\ UNCHANGED minutes

CallFormatTimeCard ==
    /\ FormatOnly
    /\ cell.card = NotCalled
    /\ cell' = [cell EXCEPT !.card = formatTime_suggestionCard(minutes)]
    /\ UNCHANGED minutes

---------------------------------------------------------------------------
(* The paginated pages (ingredients, recipes, pantry) and the suggestions   *)
(* page: URL search parameters, local controls, list queries.               *)

Routes == {"ingredients", "recipes", "pantry", "suggestions"}

SearchRoutes == {"ingredients", "recipes"}

PagedRoutes == {"ingredients", "recipes", "pantry"}

UrlKeys == {"page", "search", "expiring_soon", "min_match_score", "limit", "tab"}

NoParams == [k \in UrlKeys |-> JUndefined]

\* What the user can type into the search box.
SearchTexts == {"", "a"}

\* The slider positions tried (min 0, max 1, step 0.1; min 1, max 50, step 1).
SliderScores == {DEFAULT_MIN_MATCH_SCORE, ScoreScale}

SliderLimits == {1, DEFAULT_LIMIT}

\* The address-bar contents tried on each page: valid values, a value the
\* schema rejects, and a parameter ("tab") that no schema of the page knows.
RawUrls(r) ==
    IF r \in SearchRoutes
    THEN {[NoParams EXCEPT !.page = JNum(1), !.search = JStr("")],
          [NoParams EXCEPT !.page = JNum(2), !.search = JStr("")],
          [NoParams EXCEPT !.page = JNum(1), !.search = JStr("a")],
          [NoParams EXCEPT !.page = JStr("x"), !.search = JStr(""), !.tab = JStr("k")]}
    ELSE IF r = "pantry"
    THEN {[NoParams EXCEPT !.page = JNum(1), !.expiring_soon = JBool(FALSE)],
          [NoParams EXCEPT !.page = JNum(2), !.expiring_soon = JBool(FALSE)],
          [NoParams EXCEPT !.page = JNum(1), !.expiring_soon = JBool(TRUE)],
          [NoParams EXCEPT !.page = JStr("x"), !.expiring_soon = JStr("yes"),
                           !.tab = JStr("k")]}
    ELSE {[NoParams EXCEPT !.min_match_score = JNum(DEFAULT_MIN_MATCH_SCORE),
                           !.limit = JNum(DEFAULT_LIMIT)],
          [NoParams EXCEPT !.min_match_score = JNum(ScoreScale), !.limit = JNum(1)],
          [NoParams EXCEPT !.min_match_score = JNum(ScoreScale + 500),
                           !.limit = JNum(0), !.tab = JStr("k")]}

\* z.number().catch(d), z.string().catch(d), z.boolean().catch(d)
zNumberCatch(v, d) == IF v.t = "number" THEN v.n ELSE d

zStringCatch(v, d) == IF v.t = "string" THEN v.s ELSE d

zBooleanCatch(v, d) == IF v.t = "boolean" THEN v.b ELSE d

\* A copy that checks the type and not the range.
zNumberRangeCatch_norange(v, lo, hi, d) == IF v.t = "number" THEN v.n ELSE d

\* z.number().min(lo).max(hi).catch(d)
zNumberRangeCatch(v, lo, hi, d) ==
    IF v.t = "number" /\ v.n >= lo /\ v.n <= hi THEN v.n ELSE d

ingredientsSearchSchema(u) ==
    [page |-> zNumberCatch(u.page, 1), search |-> zStringCatch(u.search, "")]

recipesSearchSchema(u) ==
    [page |-> zNumberCatch(u.page, 1), search |-> zStringCatch(u.search, "")]

pantrySearchSchema(u) ==
    [page |-> zNumberCatch(u.page, 1),
     expiring_soon |-> zBooleanCatch(u.expiring_soon, FALSE)]

suggestionsSearchSchema(u) ==
    [min_match_score |->
        zNumberRangeCatch(u.min_match_score, 0, ScoreScale, DEFAULT_MIN_MATCH_SCORE),
     limit |-> zNumberRangeCatch(u.limit, 1, MAX_LIMIT, DEFAULT_LIMIT)]

\* Route.useSearch(): validateSearch applied to the search parameters
validateSearch(r, u) ==
    CASE r = "ingredients" -> ingredientsSearchSchema(u)
      [] r = "recipes" -> recipesSearchSchema(u)
      [] r = "pantry" -> pantrySearchSchema(u)
      [] r = "suggestions" -> suggestionsSearchSchema(u)

\* search || undefined: an absent parameter is the empty sequence
OrUndefined(s) == IF s = "" THEN <<>> ELSE <<s>>

\* A copy that forgets the search text in the request.
getRecipesQueryOptions_nosearch(s) ==
    [request |-> [skip |-> (s.page - 1) * PER_PAGE, limit |-> PER_PAGE,
                  search |-> <<>>],
     queryKey |-> <<"recipes", s>>]

\* A copy that skips one page too many.
getIngredientsQueryOptions_offbyone(s) ==
    [request |-> [skip |-> s.page * PER_PAGE, limit |-> PER_PAGE,
                  search |-> OrUndefined(s.search)],
     queryKey |-> <<"ingredients", s>>]

getIngredientsQueryOptions(s) ==
    [request |-> [skip |-> (s.page - 1) * PER_PAGE, limit |-> PER_PAGE,
                  search |-> OrUndefined(s.search)],
     queryKey |-> <<"ingredients", s>>]

getRecipesQueryOptions(s) ==
    [request |-> [skip |-> (s.page - 1) * PER_PAGE, limit |-> PER_PAGE,
                  search |-> OrUndefined(s.search)],
     queryKey |-> <<"recipes", s>>]

getUserIngredientsQueryOptions(s) ==
    [request |-> [skip |-> (s.page - 1) * PER_PAGE, limit |-> PER_PAGE,
                  expiringSoon |-> s.expiring_soon, daysAhead |-> DAYS_AHEAD],
     queryKey |-> <<"user-ingredients", s>>]

getRecipeSuggestionsQueryOptions(s) ==
    [request |-> [minMatchScore |-> s.min_match_score, limit |-> s.limit],
     queryKey |-> <<"recipe-suggestions", s>>]

\* The options useQuery is given on page r when the address bar holds u.
QueryOptions(r, u) ==
    CASE r = "ingredients" -> getIngredientsQueryOptions(validateSearch(r, u))
      [] r = "recipes" -> getRecipesQueryOptions(validateSearch(r, u))
      [] r = "pantry" -> getUserIngredientsQueryOptions(validateSearch(r, u))
      [] r = "suggestions" -> getRecipeSuggestionsQueryOptions(validateSearch(r, u))

\* What the service may answer. The service is not part of this code: any
\* list, of any length and in any order, with any count.
ListResponses ==
    {[data |-> [i \in 1..nc[1] |-> i], count |-> nc[2]] :
        nc \in {<<0, MaxRows>>, <<1, 1>>, <<MaxRows, MaxRows>>}}

Suggestion(id, score, available, total) ==
    [recipe_id |-> id, match_score |-> score,
     available_count |-> available, total_ingredients |-> total]

SuggestionResponses ==
    {[data |-> d, count |-> Len(d)] :
        d \in {<<>>,
               <<Suggestion(1, 900, 9, 10), Suggestion(2, 100, 1, 10)>>,
               <<Suggestion(2, 100, 1, 10), Suggestion(1, 900, 9, 10)>>}}

Responses(r) == IF r = "suggestions" THEN SuggestionResponses ELSE ListResponses

EmptyMap == [k \in {} |-> 0]

Without(f, k) == [x \in DOMAIN f \ {k} |-> f[x]]

\* The key useQuery observes.
CurKey == QueryOptions(route, url).queryKey

\* A copy without placeholderData.
Data_noPlaceholder == IF CurKey \in DOMAIN cache THEN <<cache[CurKey]>> ELSE <<>>

\* useQuery's data: the query's own data, or else placeholderData: the data
\* of the last query this observer saw with data.
Data ==
    IF CurKey \in DOMAIN cache THEN <<cache[CurKey]>>
    ELSE IF lastKey # {} THEN <<cache[CHOOSE k \in lastKey : TRUE]>>
    ELSE <<>>

isPlaceholderData == CurKey \notin DOMAIN cache /\ lastKey # {}

\* isLoading: fetching, and no data, not even a placeholder
isLoading == Data = <<>> /\ CurKey \in DOMAIN inflight

\* Array.prototype.slice(0, n)
Slice(s, n) == SubSeq(s, 1, IF Len(s) < n THEN Len(s) ELSE n)

\* data?.data.slice(0, PER_PAGE) ?? []
Rows == IF Data = <<>> THEN <<>> ELSE Slice(Data[1].data, PER_PAGE)

\* opacity={isPlaceholderData ? 0.5 : 1} of each row
opacity == IF isPlaceholderData THEN "0.5" ELSE "1"

\* if (isLoading) return <PendingItems />
PendingItems == isLoading

\* data?.count ?? 0
Count == IF Data = <<>> THEN 0 ELSE Data[1].count

\* rows.length === 0 ? <EmptyState.Root> : ..., after the isLoading return
EmptyState == ~PendingItems /\ Len(Rows) = 0

\* A copy with the pagination control outside the conditional.
PaginationRoot_always == ~PendingItems

\* ... : <> <Table.Root> <PaginationRoot> </>: the table and the pagination
\* control are the other branch
PaginationRoot == ~PendingItems /\ Len(Rows) # 0

RECURSIVE Reverse(_)
Reverse(s) == IF s = <<>> THEN <<>> ELSE Append(Reverse(Tail(s)), Head(s))

\* A copy that shows the list back to front.
suggestions_reversed == IF Data = <<>> THEN <<>> ELSE Reverse(Data[1].data)

\* A copy that drops what is under the score asked for.
suggestions_filtered ==
    IF Data = <<>> THEN <<>>
    ELSE SelectSeq(Data[1].data,
                   LAMBDA x : x.match_score >= validateSearch(route, url).min_match_score)

\* data?.data ?? [], one RecipeSuggestionCard per element
suggestions == IF Data = <<>> THEN <<>> ELSE Data[1].data

---------------------------------------------------------------------------
(* Operations of the pages *)

\* useQuery after a render with the address bar at u: a request for the
\* observed key goes out when the key has no data, unless one is out already.
Observe(u, inf, c) ==
    LET o == QueryOptions(route, u)
    IN  IF o.queryKey \in DOMAIN inf \/ o.queryKey \in DOMAIN c THEN inf
        ELSE (o.queryKey :> o.request) @@ inf

\* The observer's last query with data, after a render with the address bar
\* at u and the cache at c.
Remember(u, c, last) ==
    IF QueryOptions(route, u).queryKey \in DOMAIN c
    THEN {QueryOptions(route, u).queryKey}
    ELSE last

\* navigate({ search }) followed by the render it causes
Navigate(u) ==
    /\ url' = u
    /\ inflight' = Observe(u, inflight, cache)
    /\ lastKey' = Remember(u, cache, lastKey)
    /\ UNCHANGED <<route, cache>>

\* useState(search), useState(min_match_score), useState(limit): the initial
\* values of a mount
MountControls(r, u) ==
    /\ searchInput' = IF r \in SearchRoutes THEN validateSearch(r, u).search ELSE ""
    /\ minMatchScore' = IF r = "suggestions" THEN validateSearch(r, u).min_match_score ELSE 0
    /\ maxResults' = IF r = "suggestions" THEN validateSearch(r, u).limit ELSE 0

\* A copy that forgets the other parameters.
handleSearch_noprev(prev, newSearch) ==
    [NoParams EXCEPT !.search = JStr(newSearch), !.page = JNum(1)]

\* (prev) => ({ ...prev, search: newSearch, page: 1 })
handleSearch(prev, newSearch) ==
    [prev EXCEPT !.search = JStr(newSearch), !.page = JNum(1)]

\* (prev) => ({ ...prev, page })
setPage(prev, page) == [prev EXCEPT !.page = JNum(page)]

\* (prev) => ({ ...prev, expiring_soon: checked, page: 1 })
toggleExpiringSoon(prev, checked) ==
    [prev EXCEPT !.expiring_soon = JBool(checked), !.page = JNum(1)]

\* () => ({ min_match_score: minMatchScore, limit: maxResults })
updateFilters ==
    [NoParams EXCEPT !.min_match_score = JNum(minMatchScore),
                     !.limit = JNum(maxResults)]

\* PaginationRoot count={count} pageSize={PER_PAGE}: the pages offered
PaginationPages == 1..(IF Count = 0 THEN 1 ELSE (Count + PER_PAGE - 1) \div PER_PAGE)

PagesInit ==
    /\ route \in Routes
    /\ url \in RawUrls(route)
    /\ searchInput = IF route \in SearchRoutes THEN validateSearch(route, url).search ELSE ""
    /\ minMatchScore =
         IF route = "suggestions" THEN validateSearch(route, url).min_match_score ELSE 0
    /\ maxResults = IF route = "suggestions" THEN validateSearch(route, url).limit ELSE 0
    /\ cache = EmptyMap
    /\ inflight = (QueryOptions(route, url).queryKey :> QueryOptions(route, url).request)
    /\ lastKey = {}

PagesOff ==
    /\ route = "ingredients"
    /\ url = [NoParams EXCEPT !.page = JNum(1), !.search = JStr("")]
    /\ searchInput = ""
    /\ minMatchScore = 0
    /\ maxResults = 0
    /\ cache = EmptyMap
    /\ inflight = EmptyMap
    /\ lastKey = {}

\* onChange of the search box
SetSearchInput(v) ==
    /\ PagesOnly
    /\ route \in SearchRoutes
    /\ ~isLoading
    /\ searchInput' = v
    /\ UNCHANGED <<route, url, minMatchScore, maxResults, cache, inflight, lastKey>>

\* onKeyDown of the search box with e.key === "Enter"
KeyDownEnter ==
    /\ PagesOnly
    /\ route \in SearchRoutes
    /\ ~isLoading
    /\ Navigate(handleSearch(url, searchInput))
    /\ UNCHANGED <<searchInput, minMatchScore, maxResults>>

\* onPageChange of the pagination control
PageChange(page) ==
    /\ PagesOnly
    /\ route \in PagedRoutes
    /\ PaginationRoot
    /\ page \in PaginationPages
    /\ Navigate(setPage(url, page))
    /\ UNCHANGED <<searchInput, minMatchScore, maxResults>>

\* onCheckedChange of the switch
CheckedChange ==
    /\ PagesOnly
    /\ route = "pantry"
    /\ ~isLoading
    /\ Navigate(toggleExpiringSoon(url, ~validateSearch(route, url).expiring_soon))
    /\ UNCHANGED <<searchInput, minMatchScore, maxResults>>

\* onValueChange of the first slider
SetMinMatchScore(v) ==
    /\ PagesOnly
    /\ route = "suggestions"
    /\ ~isLoading
    /\ minMatchScore' = v
    /\ UNCHANGED <<route, url, searchInput, maxResults, cache, inflight, lastKey>>

\* onValueChange of the second slider
SetMaxResults(v) ==
    /\ PagesOnly
    /\ route = "suggestions"
    /\ ~isLoading
    /\ maxResults' = v
    /\ UNCHANGED <<route, url, searchInput, minMatchScore, cache, inflight, lastKey>>

\* onClick of Update Suggestions
UpdateSuggestions ==
    /\ PagesOnly
    /\ route = "suggestions"
    /\ ~isLoading
    /\ Navigate(updateFilters)
    /\ UNCHANGED <<searchInput, minMatchScore, maxResults>>

\* Browser back or forward, or an edited address: the search parameters
\* change while the page stays mounted; useState keeps its value.
HistoryChange(u) ==
    /\ PagesOnly
    /\ u \in RawUrls(route)
    /\ u # url
    /\ Navigate(u)
    /\ UNCHANGED <<searchInput, minMatchScore, maxResults>>

\* The page is left and entered again: a new component, a new observer, the
\* same query cache.
Remount(u) ==
    /\ PagesOnly
    /\ u \in RawUrls(route)
    /\ url' = u
    /\ MountControls(route, u)
    /\ inflight' = Observe(u, inflight, cache)
    /\ lastKey' = Remember(u, cache, {})
    /\ UNCHANGED <<route, cache>>

\* The service answers a request.
Respond(k, resp) ==
    /\ PagesOnly
    /\ k \in DOMAIN inflight
    /\ resp \in Responses(route)
    /\ cache' = (k :> resp) @@ cache
    /\ inflight' = Without(inflight, k)
    /\ lastKey' = Remember(url, cache', lastKey)
    /\ UNCHANGED <<route, url, searchInput, minMatchScore, maxResults>>

PagesNext ==
    \/ \E v \in SearchTexts : SetSearchInput(v)
    \/ KeyDownEnter
    \/ \E page \in PaginationPages : PageChange(page)
    \/ CheckedChange
    \/ \E v \in SliderScores : SetMinMatchScore(v)
    \/ \E v \in SliderLimits : SetMaxResults(v)
    \/ UpdateSuggestions
    \/ \E u \in RawUrls(route) : HistoryChange(u)
    \/ \E u \in RawUrls(route) : Remount(u)
    \/ \E k \in DOMAIN inflight, resp \in Responses(route) : Respond(k, resp)

\* The values the page parameter of the address bar is given: any integer,
\* zero and the negative ones included, a text, and none.
PageValues == {JNum(p) : p \in (0 - MaxPage)..MaxPage} \cup {JStr("x"), JUndefined}

AddressBars == {[NoParams EXCEPT !.page = v] : v \in PageValues}

\* A paginated page opened at any of these addresses.
AddressInit ==
    /\ route \in PagedRoutes
    /\ url \in AddressBars
    /\ searchInput = IF route \in SearchRoutes THEN validateSearch(route, url).search ELSE ""
    /\ minMatchScore = 0
    /\ maxResults = 0
    /\ cache = EmptyMap
    /\ inflight = (QueryOptions(route, url).queryKey :> QueryOptions(route, url).request)
    /\ lastKey = {}

\* The user edits the page parameter in the address bar.
AddressChange(u) ==
    /\ PagesOnly
    /\ u \in AddressBars
    /\ u # url
    /\ Navigate(u)
    /\ UNCHANGED <<searchInput, minMatchScore, maxResults>>

AddressNext == \E u \in AddressBars : AddressChange(u)

---------------------------------------------------------------------------
(* The mutations of the dialogs and the query cache they invalidate *)

\* The recipe whose Edit Recipe dialog or detail page is open, and another.
ThisRecipe == "r1"

OtherRecipe == "r2"

\* Stands for the { page, search } object of a list key.
Params == "{...}"

\* The keys under which the components cache their queries.
QueryKeys ==
    {<<"ingredients">>, <<"ingredients", Params>>, <<"recipes", Params>>,
     <<"recipe", ThisRecipe>>,
     <<"recipe-ingredients", ThisRecipe>>, <<"recipe-ingredients", OtherRecipe>>,
     <<"user-ingredients", Params>>, <<"recipe-suggestions", Params>>}

Mutations ==
    {"createIngredient", "updateIngredient", "createRecipe", "updateRecipe",
     "createRecipeIngredient", "deleteRecipeIngredient", "createUserIngredient"}

\* A query key matches a filter key when the filter is a prefix of it.
partialMatchKey(key, prefix) ==
    /\ Len(prefix) <= Len(key)
    /\ SubSeq(key, 1, Len(prefix)) = prefix

\* queryClient.invalidateQueries({ queryKey: prefix })
invalidateQueries(q, prefix) ==
    [k \in DOMAIN q |->
        IF q[k] # "absent" /\ partialMatchKey(k, prefix) THEN "invalidated" ELSE q[k]]

AddIngredient_onSettled(q) == invalidateQueries(q, <<"ingredients">>)

EditIngredient_onSettled(q) == invalidateQueries(q, <<"ingredients">>)

AddRecipe_onSettled(q) == invalidateQueries(q, <<"recipes">>)

EditRecipe_onSettled(q) ==
    invalidateQueries(invalidateQueries(q, <<"recipes">>), <<"recipe", ThisRecipe>>)

AddRecipeIngredient_onSettled(q) ==
    invalidateQueries(q, <<"recipe-ingredients", ThisRecipe>>)

RecipeIngredients_onSettled(q) ==
    invalidateQueries(q, <<"recipe-ingredients", ThisRecipe>>)

AddUserIngredient_onSettled(q) == invalidateQueries(q, <<"user-ingredients">>)

CacheInit ==
    /\ queries = [k \in QueryKeys |-> "absent"]
    /\ pending = {}
    /\ toast = "none"

CacheOff == CacheInit

\* A useQuery of a mounted component fetches its key: for the first time, or
\* again after the key was invalidated.
FetchQuery(k) ==
    /\ CacheOnly
    /\ k \in QueryKeys
    /\ queries[k] # "fresh"
    /\ queries' = [queries EXCEPT ![k] = "fresh"]
    /\ UNCHANGED <<pending, toast>>

\* mutation.mutate(data): the request goes out.
Mutate(m) ==
    /\ CacheOnly
    /\ m \in Mutations
    /\ m \notin pending
    /\ Cardinality(pending) < MaxPending
    /\ pending' = pending \cup {m}
    /\ UNCHANGED <<queries, toast>>

\* A copy that invalidates in onSuccess instead of onSettled.
Settled_onSuccessOnly(m, ok, settled) ==
    /\ CacheOnly
    /\ m \in pending
    /\ pending' = pending \ {m}
    /\ toast' = IF ok THEN "success" ELSE "error"
    /\ queries' = IF ok THEN settled ELSE queries

\* The request of mutation m settles: onSuccess (showSuccessToast) or onError
\* (handleError), then onSettled in both cases; settled is the cache as
\* onSettled leaves it.
Settled(m, ok, settled) ==
    /\ CacheOnly
    /\ m \in pending
    /\ pending' = pending \ {m}
    /\ toast' = IF ok THEN "success" ELSE "error"
    /\ queries' = settled

SettleCreateIngredient(ok) == Settled("createIngredient", ok, AddIngredient_onSettled(queries))

SettleUpdateIngredient(ok) == Settled("updateIngredient", ok, EditIngredient_onSettled(queries))

SettleCreateRecipe(ok) == Settled("createRecipe", ok, AddRecipe_onSettled(queries))

SettleUpdateRecipe(ok) == Settled("updateRecipe", ok, EditRecipe_onSettled(queries))

SettleCreateRecipeIngredient(ok) ==
    Settled("createRecipeIngredient", ok, AddRecipeIngredient_onSettled(queries))

SettleDeleteRecipeIngredient(ok) ==
    Settled("deleteRecipeIngredient", ok, RecipeIngredients_onSettled(queries))

SettleCreateUserIngredient(ok) ==
    Settled("createUserIngredient", ok, AddUserIngredient_onSettled(queries))

CacheNext ==
    \/ \E k \in QueryKeys : FetchQuery(k)
    \/ \E m \in Mutations : Mutate(m)
    \/ \E ok \in BOOLEAN : SettleCreateIngredient(ok)
    \/ \E ok \in BOOLEAN : SettleUpdateIngredient(ok)
    \/ \E ok \in BOOLEAN : SettleCreateRecipe(ok)
    \/ \E ok \in BOOLEAN : SettleUpdateRecipe(ok)
    \/ \E ok \in BOOLEAN : SettleCreateRecipeIngredient(ok)
    \/ \E ok \in BOOLEAN : SettleDeleteRecipeIngredient(ok)
    \/ \E ok \in BOOLEAN : SettleCreateUserIngredient(ok)

---------------------------------------------------------------------------
(* The service operations the screens call, and the entities they act on   *)

Kinds == {"ingredients", "recipes", "recipe-ingredients", "user-ingredients"}

\* What shows entities: the list of each kind, and the ingredient dropdown of
\* the Add Ingredient to Recipe and Add to Pantry dialogs.
Views == Kinds \cup {"dropdown"}

Ids == 1..MaxEntities

\* An entity of the service: not there yet, as created, as last updated, or
\* deleted.
CrudInit ==
    /\ store = [k \in Kinds |-> [i \in Ids |-> "absent"]]
    /\ seen = [v \in Views |-> {}]

CrudOff == CrudInit

Exists(k, i) == store[k][i] \in {"created", "updated"}

\* What a list request of kind k returns.
Listed(k) == {i \in Ids : Exists(k, i)}

Create(k, i) ==
    /\ store[k][i] = "absent"
    /\ store' = [store EXCEPT ![k][i] = "created"]
    /\ UNCHANGED seen

Read(v, k) ==
    /\ seen' = [seen EXCEPT ![v] = Listed(k)]
    /\ UNCHANGED store

Update(k, i) ==
    /\ Exists(k, i)
    /\ store' = [store EXCEPT ![k][i] = "updated"]
    /\ UNCHANGED seen

Delete(k, i) ==
    /\ Exists(k, i)
    /\ store' = [store EXCEPT ![k][i] = "deleted"]
    /\ UNCHANGED seen

\* AddIngredient: IngredientsService.createIngredient
createIngredient(i) == CrudOnly /\ Create("ingredients", i)

\* IngredientsTable: IngredientsService.readIngredients
readIngredients == CrudOnly /\ Read("ingredients", "ingredients")

\* The dropdown of the two dialogs: IngredientsService.readIngredients
readIngredientsDropdown == CrudOnly /\ Read("dropdown", "ingredients")

\* EditIngredient, one per row shown: IngredientsService.updateIngredient
updateIngredient(i) ==
    /\ CrudOnly
    /\ i \in seen["ingredients"]
    /\ Update("ingredients", i)

\* AddRecipe: RecipesService.createRecipe
createRecipe(i) == CrudOnly /\ Create("recipes", i)

\* RecipesTable: RecipesService.readRecipes
readRecipes == CrudOnly /\ Read("recipes", "recipes")

\* EditRecipe, one per row shown: RecipesService.updateRecipe
updateRecipe(i) ==
    /\ CrudOnly
    /\ i \in seen["recipes"]
    /\ Update("recipes", i)

\* AddRecipeIngredient, inside RecipeIngredients of a recipe shown, with an
\* ingredient picked from the dropdown:
\* RecipeIngredientsService.createRecipeIngredient
createRecipeIngredient(i) ==
    /\ CrudOnly
    /\ seen["recipes"] # {}
    /\ seen["dropdown"] # {}
    /\ Create("recipe-ingredients", i)

\* RecipeIngredients: RecipeIngredientsService.readRecipeIngredients
readRecipeIngredients ==
    /\ CrudOnly
    /\ seen["recipes"] # {}
    /\ Read("recipe-ingredients", "recipe-ingredients")

\* A copy that calls the wrong service: it deletes the ingredient of the row.
deleteRecipeIngredient_ingredient(i) ==
    /\ CrudOnly
    /\ i \in seen["recipe-ingredients"]
    /\ Delete("ingredients", i)

\* handleDelete of a row shown: RecipeIngredientsService.deleteRecipeIngredient
deleteRecipeIngredient(i) ==
    /\ CrudOnly
    /\ i \in seen["recipe-ingredients"]
    /\ Delete("recipe-ingredients", i)

\* AddUserIngredient, with an ingredient picked from the dropdown:
\* UserIngredientsService.createUserIngredient
createUserIngredient(i) ==
    /\ CrudOnly
    /\ seen["dropdown"] # {}
    /\ Create("user-ingredients", i)

\* PantryTable: UserIngredientsService.readUserIngredients
readUserIngredients == CrudOnly /\ Read("user-ingredients", "user-ingredients")

CrudNext ==
    \/ \E i \in Ids : createIngredient(i)
    \/ readIngredients
    \/ readIngredientsDropdown
    \/ \E i \in Ids : updateIngredient(i)
    \/ \E i \in Ids : createRecipe(i)
    \/ readRecipes
    \/ \E i \in Ids : updateRecipe(i)
    \/ \E i \in Ids : createRecipeIngredient(i)
    \/ readRecipeIngredients
    \/ \E i \in Ids : deleteRecipeIngredient(i)
    \/ \E i \in Ids : createUserIngredient(i)
    \/ readUserIngredients

---------------------------------------------------------------------------
(* RecipeSuggestionCard: the match badge and the progress bar *)

\* A JavaScript number that is the fraction n / d, and the results of a
\* division by zero.
Ratio(n, d) == [t |-> "number", n |-> n, d |-> d]

JNaN == [t |-> "NaN", n |-> 0, d |-> 1]

JInfinity == [t |-> "Infinity", n |-> 0, d |-> 1]

\* a / b of two non-negative integers
Divide(a, b) ==
    IF b # 0 THEN Ratio(a, b)
    ELSE IF a = 0 THEN JNaN
    ELSE JInfinity

\* x * k
Times(x, k) == IF x.t = "number" THEN Ratio(x.n * k, x.d) ELSE x

\* Math.round(score * 100): the nearest integer, a half rounded up
MathRoundPercent(score) == (2 * 100 * score + ScoreScale) \div (2 * ScoreScale)

\* A copy with the first threshold exclusive.
getMatchScoreColor_gt(score) ==
    IF score > (8 * ScoreScale) \div 10 THEN "green"
    ELSE IF score >= (6 * ScoreScale) \div 10 THEN "orange"
    ELSE "red"

getMatchScoreColor(score) ==
    IF score >= (8 * ScoreScale) \div 10 THEN "green"
    ELSE IF score >= (6 * ScoreScale) \div 10 THEN "orange"
    ELSE "red"

\* <Badge colorPalette={getMatchScoreColor(match_score)}>
\*   {Math.round(match_score * 100)}% match
Badge(s) ==
    [colorPalette |-> getMatchScoreColor(s.match_score),
     percent |-> MathRoundPercent(s.match_score)]

\* <Progress.Root value={(available_count / total_ingredients) * 100}
\*   colorPalette={getMatchScoreColor(match_score)}>
ProgressRoot(s) ==
    [value |-> Times(Divide(s.available_count, s.total_ingredients), 100),
     colorPalette |-> getMatchScoreColor(s.match_score)]

NotRendered == [colorPalette |-> "none"]

\* The suggestions a response may hold: any score from 0 to 1, and of the
\* recipe's ingredients any number available.
CardSuggestions ==
    {Suggestion(1, score, available, total) :
        score \in 0..ScoreScale,
        available \in 0..MaxIngredients,
        total \in 0..MaxIngredients}

CardInit ==
    /\ suggestion \in {s \in CardSuggestions : s.available_count <= s.total_ingredients}
    /\ badge = NotRendered
    /\ progress = NotRendered

CardOff ==
    /\ suggestion = Suggestion(1, 0, 0, 0)
    /\ badge = NotRendered
    /\ progress = NotRendered

RenderBadge ==
    /\ CardOnly
    /\ badge = NotRendered
    /\ badge' = Badge(suggestion)
    /\ UNCHANGED <<suggestion, progress>>

RenderProgress ==
    /\ CardOnly
    /\ progress = NotRendered
    /\ progress' = ProgressRoot(suggestion)
    /\ UNCHANGED <<suggestion, badge>>

CardNext ==
    \/ RenderBadge
    \/ RenderProgress

---------------------------------------------------------------------------
(* The dialogs: open state, form, submit, and the settling of their requests *)

AddDialogs == {"AddIngredient", "AddRecipe", "AddRecipeIngredient", "AddUserIngredient"}

EditDialogs == {"EditIngredient", "EditRecipe"}

Dialogs == AddDialogs \cup EditDialogs

\* mutationFn of the dialog's useMutation
MutationOf(d) ==
    CASE d = "AddIngredient" -> "createIngredient"
      [] d = "AddRecipe" -> "createRecipe"
      [] d = "AddRecipeIngredient" -> "createRecipeIngredient"
      [] d = "AddUserIngredient" -> "createUserIngredient"
      [] d = "EditIngredient" -> "updateIngredient"
      [] d = "EditRecipe" -> "updateRecipe"

DialogMutations == {MutationOf(d) : d \in Dialogs}

\* A form holds its defaultValues, what the user entered, or, in the Edit
\* dialogs, the values of the entity it was opened for.
FormStates == {"defaults", "entered", "loaded"}

DialogInit ==
    /\ isOpen = [d \in Dialogs |-> FALSE]
    /\ form = [d \in Dialogs |-> "defaults"]
    /\ calls = [m \in DialogMutations |-> 0]
    /\ toasts = 0
    /\ errors = 0

DialogOff == DialogInit

RECURSIVE SumOver(_, _)
SumOver(f, S) ==
    IF S = {} THEN 0
    ELSE LET x == CHOOSE y \in S : TRUE IN f[x] + SumOver(f, S \ {x})

\* The submits so far: requests out and requests settled.
Submitted == SumOver(calls, DialogMutations) + toasts + errors

\* AddRecipeIngredient is rendered by RecipeIngredients, on the Ingredients
\* tab of the Edit Recipe dialog and on the recipe's page; the other dialogs
\* open from a page, where an open dialog covers their triggers.
CanOpen(d) ==
    IF d = "AddRecipeIngredient"
    THEN \A x \in Dialogs \ {d, "EditRecipe"} : ~isOpen[x]
    ELSE \A x \in Dialogs : ~isOpen[x]

\* The dialog the user can reach: the one opened last.
OnTop(d) == isOpen[d] /\ (d = "EditRecipe" => ~isOpen["AddRecipeIngredient"])

\* The required fields are filled: the defaultValues leave them empty.
isValid(d) == form[d] # "defaults"

\* onOpenChange({ open: true }); in the Edit dialogs the effect then fills
\* the form from the entity.
OpenDialog(d) ==
    /\ DialogOnly
    /\ ~isOpen[d]
    /\ CanOpen(d)
    /\ isOpen' = [isOpen EXCEPT ![d] = TRUE]
    /\ form' = IF d \in EditDialogs THEN [form EXCEPT ![d] = "loaded"] ELSE form
    /\ UNCHANGED <<calls, toasts, errors>>

\* Cancel or the close button: onOpenChange({ open: false })
CloseDialog(d) ==
    /\ DialogOnly
    /\ OnTop(d)
    /\ isOpen' = [isOpen EXCEPT ![d] = FALSE]
    /\ UNCHANGED <<form, calls, toasts, errors>>

\* The user changes fields of the form.
ChangeForm(d) ==
    /\ DialogOnly
    /\ OnTop(d)
    /\ form' = [form EXCEPT ![d] = "entered"]
    /\ UNCHANGED <<isOpen, calls, toasts, errors>>

\* The entity prop of an open Edit dialog changes (a refetch brought other
\* values): the effect fills the form again.
EntityChanged(d) ==
    /\ DialogOnly
    /\ d \in EditDialogs
    /\ isOpen[d]
    /\ form' = [form EXCEPT ![d] = "loaded"]
    /\ UNCHANGED <<isOpen, calls, toasts, errors>>

\* onSubmit: mutation.mutate(data)
onSubmit(c, d) == [c EXCEPT ![MutationOf(d)] = @ + 1]

\* handleSubmit(onSubmit) of the form of dialog d, given a submit event:
\* onSubmit is called when the form validates.
handleSubmit(c, d) == IF isValid(d) THEN onSubmit(c, d) ELSE c

\* The forms whose onSubmit a submit event of the form of d reaches: the
\* event bubbles through the React tree, and the form of AddRecipeIngredient,
\* when RecipeIngredients is rendered in the Edit Recipe dialog, is inside
\* the form of EditRecipe.
SubmitPath(d) ==
    IF d = "AddRecipeIngredient" /\ isOpen["EditRecipe"]
    THEN <<"AddRecipeIngredient", "EditRecipe">>
    ELSE <<d>>

RECURSIVE Dispatch(_, _)
Dispatch(c, path) ==
    IF path = <<>> THEN c
    ELSE Dispatch(handleSubmit(c, Head(path)), Tail(path))

\* The user submits the form of dialog d (the submit button is enabled when
\* the form is valid; isSubmitting is over as soon as onSubmit returned).
Submit(d) ==
    /\ DialogOnly
    /\ OnTop(d)
    /\ isValid(d)
    /\ Submitted < MaxSubmits
    /\ calls' = Dispatch(calls, SubmitPath(d))
    /\ UNCHANGED <<isOpen, form, toasts, errors>>

\* Settle with the dialog closed in onSettled, whatever the outcome.
Settle_closeOnSettled(d, ok) ==
    /\ DialogOnly
    /\ calls[MutationOf(d)] > 0
    /\ calls' = [calls EXCEPT ![MutationOf(d)] = @ - 1]
    /\ toasts' = IF ok THEN toasts + 1 ELSE toasts
    /\ errors' = IF ok THEN errors ELSE errors + 1
    /\ isOpen' = [isOpen EXCEPT ![d] = FALSE]
    /\ form' = IF ok /\ d \in AddDialogs THEN [form EXCEPT ![d] = "defaults"] ELSE form

\* A request of dialog d settles. onSuccess: showSuccessToast, reset() in the
\* Add dialogs, setIsOpen(false). onError: handleError(err).
Settle(d, ok) ==
    /\ DialogOnly
    /\ calls[MutationOf(d)] > 0
    /\ calls' = [calls EXCEPT ![MutationOf(d)] = @ - 1]
    /\ toasts' = IF ok THEN toasts + 1 ELSE toasts
    /\ errors' = IF ok THEN errors ELSE errors + 1
    /\ isOpen' = IF ok THEN [isOpen EXCEPT ![d] = FALSE] ELSE isOpen
    /\ form' = IF ok /\ d \in AddDialogs THEN [form EXCEPT ![d] = "defaults"] ELSE form

DialogNext ==
    \/ \E d \in Dialogs : OpenDialog(d)
    \/ \E d \in Dialogs : CloseDialog(d)
    \/ \E d \in Dialogs : ChangeForm(d)
    \/ \E d \in EditDialogs : EntityChanged(d)
    \/ \E d \in Dialogs : Submit(d)
    \/ \E d \in Dialogs, ok \in BOOLEAN : Settle(d, ok)

---------------------------------------------------------------------------
(* The forms of the recipe and ingredient dialogs and the request bodies    *)
(* their onSubmit builds. A text is a sequence of characters.               *)

vString(s) == [t |-> "string", n |-> 0, s |-> s]

vNumber(n) == [t |-> "number", n |-> n, s |-> <<>>]

vUndefined == [t |-> "undefined", n |-> 0, s |-> <<>>]

vNull == [t |-> "null", n |-> 0, s |-> <<>>]

vNaN == [t |-> "NaN", n |-> 0, s |-> <<>>]

DigitChars == <<"0", "1", "2", "3", "4", "5", "6", "7", "8", "9">>

IsDigit(c) == \E i \in 1..10 : DigitChars[i] = c

DigitOf(c) == (CHOOSE i \in 1..10 : DigitChars[i] = c) - 1

\* /^\d+$/.test(text)
TestDigits(text) == text # <<>> /\ \A i \in 1..Len(text) : IsDigit(text[i])

RECURSIVE DigitPrefix(_)
DigitPrefix(text) ==
    IF text = <<>> \/ ~IsDigit(Head(text)) THEN <<>>
    ELSE <<Head(text)>> \o DigitPrefix(Tail(text))

RECURSIVE Accumulate(_, _)
Accumulate(digits, acc) ==
    IF digits = <<>> THEN acc
    ELSE Accumulate(Tail(digits), acc * 10 + DigitOf(Head(digits)))

\* Number.parseInt(text): an optional sign, then the longest run of digits;
\* NaN when there is none.
parseInt(text) ==
    LET negative == text # <<>> /\ Head(text) = "-"
        digits == DigitPrefix(IF negative THEN Tail(text) ELSE text)
    IN  IF digits = <<>> THEN vNaN
        ELSE vNumber((IF negative THEN -1 ELSE 1) * Accumulate(digits, 0))

RECURSIVE toString(_)
\* Number.prototype.toString of a non-negative integer
toString(n) ==
    IF n < 10 THEN <<DigitChars[n + 1]>>
    ELSE toString(n \div 10) \o <<DigitChars[(n % 10) + 1]>>

\* What an <input type="number"> reports as its value: the typed text when
\* it is a valid floating-point number, the empty string otherwise.
InputNumberValue(raw) ==
    LET unsigned == IF raw # <<>> /\ Head(raw) = "-" THEN Tail(raw) ELSE raw
        whole == DigitPrefix(unsigned)
        rest == SubSeq(unsigned, Len(whole) + 1, Len(unsigned))
        valid == IF rest = <<>> THEN whole # <<>>
                 ELSE Head(rest) = "." /\ TestDigits(Tail(rest))
    IN  IF valid THEN raw ELSE <<>>

NumChars == {"0", "7", "-", "."}

RawNumTexts == UNION {[1..k -> NumChars] : k \in 0..MaxLen}

\* The values a numeric field can hold
NumTexts == {InputNumberValue(raw) : raw \in RawNumTexts}

Texts == {<<>>, <<"x">>}

Grams == <<"g", "r", "a", "m", "s">>

Cups == <<"c", "u", "p", "s">>

FormDialogs == {"AddRecipe", "EditRecipe", "EditIngredient"}

NumericFields == {"prep_time_minutes", "cook_time_minutes", "servings"}

RecipeFields ==
    {"name", "description", "instructions", "difficulty", "cuisine"} \cup NumericFields

IngredientFields == {"name", "category", "unit"}

FieldsOf(d) == IF d = "EditIngredient" THEN IngredientFields ELSE RecipeFields

\* What the user can put into field f
InputsOf(f) ==
    IF f \in NumericFields THEN NumTexts
    ELSE IF f = "unit" THEN {Grams, Cups}
    ELSE Texts

\* The recipe prop of EditRecipe: with every optional field, or with none
Recipes ==
    {[name |-> vString(<<"x">>), description |-> vString(<<"x">>),
      instructions |-> vString(<<"x">>), prep_time_minutes |-> vNumber(7),
      cook_time_minutes |-> vNumber(70), servings |-> vNumber(0),
      difficulty |-> vString(<<"x">>), cuisine |-> vString(<<"x">>)],
     [name |-> vString(<<"x">>), description |-> vNull,
      instructions |-> vNull, prep_time_minutes |-> vNull,
      cook_time_minutes |-> vNull, servings |-> vNull,
      difficulty |-> vNull, cuisine |-> vNull]}

\* The ingredient prop of EditIngredient
IngredientEntities ==
    {[name |-> vString(<<"x">>), category |-> vString(<<"x">>), unit |-> vString(Cups)],
     [name |-> vString(<<"x">>), category |-> vNull, unit |-> vString(Grams)]}

\* AddRecipe has no entity prop.
NoEntity == [f \in RecipeFields |-> vNull]

EntitiesOf(d) ==
    CASE d = "AddRecipe" -> {NoEntity}
      [] d = "EditRecipe" -> Recipes
      [] d = "EditIngredient" -> IngredientEntities

\* useForm's defaultValues
defaultValues(d) ==
    [f \in FieldsOf(d) |-> IF f = "unit" THEN Grams ELSE <<>>]

\* x || "" of a string field, x?.toString() || "" of a numeric field
OrEmpty(v) ==
    CASE v.t = "string" -> v.s
      [] v.t = "number" -> toString(v.n)
      [] OTHER -> <<>>

\* The form once the dialog is open: in the Edit dialogs the effect has set
\* every field from the entity.
Opened(d, e) ==
    IF d = "AddRecipe" THEN defaultValues(d)
    ELSE [f \in FieldsOf(d) |->
            IF f = "unit" /\ OrEmpty(e[f]) = <<>> THEN Grams ELSE OrEmpty(e[f])]

\* data.x || null
TextOrUndefined_null(text) == IF text # <<>> THEN vString(text) ELSE vNull

\* data.x || undefined
TextOrUndefined(text) == IF text # <<>> THEN vString(text) ELSE vUndefined

\* data.x ? Number.parseInt(data.x) : undefined
ParsedOrUndefined(text) == IF text # <<>> THEN parseInt(text) ELSE vUndefined

AddRecipe_onSubmit(data) ==
    [name |-> vString(data.name),
     description |-> TextOrUndefined(data.description),
     instructions |-> TextOrUndefined(data.instructions),
     prep_time_minutes |-> ParsedOrUndefined(data.prep_time_minutes),
     cook_time_minutes |-> ParsedOrUndefined(data.cook_time_minutes),
     servings |-> ParsedOrUndefined(data.servings),
     difficulty |-> TextOrUndefined(data.difficulty),
     cuisine |-> TextOrUndefined(data.cuisine)]

EditRecipe_onSubmit(data) ==
    [name |-> vString(data.name),
     description |-> TextOrUndefined(data.description),
     instructions |-> TextOrUndefined(data.instructions),
     prep_time_minutes |-> ParsedOrUndefined(data.prep_time_minutes),
     cook_time_minutes |-> ParsedOrUndefined(data.cook_time_minutes),
     servings |-> ParsedOrUndefined(data.servings),
     difficulty |-> TextOrUndefined(data.difficulty),
     cuisine |-> TextOrUndefined(data.cuisine)]

EditIngredient_onSubmit(data) ==
    [name |-> vString(data.name),
     category |-> TextOrUndefined(data.category),
     unit |-> vString(data.unit)]

submitData(d, data) ==
    CASE d = "AddRecipe" -> AddRecipe_onSubmit(data)
      [] d = "EditRecipe" -> EditRecipe_onSubmit(data)
      [] d = "EditIngredient" -> EditIngredient_onSubmit(data)

\* The JSON body of the request: JSON.stringify leaves out the keys whose
\* value is undefined and writes NaN as null.
requestBody(o) ==
    [f \in {g \in DOMAIN o : o[g].t # "undefined"} |->
        IF o[f].t = "NaN" THEN vNull ELSE o[f]]

\* required: the value is not empty
required(text) == text # <<>>

\* pattern: { value: /^\d+$/ } without the test
pattern_off(text) == TRUE

\* pattern: { value: /^\d+$/ }: an empty value is not tested
pattern(text) == text = <<>> \/ TestDigits(text)

\* The validation handleSubmit runs over the registered fields
validates(d, data) ==
    /\ required(data.name)
    /\ d # "EditIngredient" => \A f \in NumericFields : pattern(data[f])

NoRequest == [op |-> "none", body |-> <<>>]

FormInit ==
    /\ dialog \in FormDialogs
    /\ entity \in EntitiesOf(dialog)
    /\ formData = Opened(dialog, entity)
    /\ sent = NoRequest

FormOff ==
    /\ dialog = "AddRecipe"
    /\ entity = NoEntity
    /\ formData = defaultValues("AddRecipe")
    /\ sent = NoRequest

\* The fields that differ from what the form opened with
Edited(data) == {f \in DOMAIN data : data[f] # Opened(dialog, entity)[f]}

\* The user changes field f to another text (by the input registered for it, or
\* by the select's onValueChange and its setValue). A field is changed in
\* one step from what the form opened with, which reaches every form with
\* at most MaxEdits changed fields.
SetField(f) ==
    /\ FormOnly
    /\ f \in FieldsOf(dialog)
    /\ Cardinality(Edited(formData)) < MaxEdits
    /\ f \notin Edited(formData)
    /\ \E v \in InputsOf(f) \ {formData[f]} :
           formData' = [formData EXCEPT ![f] = v]
    /\ sent' = NoRequest
    /\ UNCHANGED <<dialog, entity>>

\* handleSubmit(onSubmit): validate, then onSubmit(data) and mutation.mutate
SubmitForm ==
    /\ FormOnly
    /\ sent' = IF validates(dialog, formData)
               THEN [op |-> MutationOf(dialog),
                     body |-> requestBody(submitData(dialog, formData))]
               ELSE NoRequest
    /\ UNCHANGED <<dialog, entity, formData>>

FormNext ==
    \/ \E f \in RecipeFields \cup IngredientFields : SetField(f)
    \/ SubmitForm

---------------------------------------------------------------------------
(* RecipeIngredients: removing a row after window.confirm *)

\* The ids of the rows listed for ThisRecipe
RowIds == {"i1", "i2"}

NoConfirm == [row |-> "none", answer |-> FALSE]

DeleteInit ==
    /\ confirmed = NoConfirm
    /\ deletes = {}

DeleteOff == DeleteInit

\* The rows are rendered from the data of the query.
RowsListed == queries[<<"recipe-ingredients", ThisRecipe>>] # "absent"

\* RecipeIngredients' useQuery fetches, or fetches again after invalidation.
FetchRecipeIngredients == FetchQuery(<<"recipe-ingredients", ThisRecipe>>)

\* handleDelete without the window.confirm test
handleDelete_unasked(ingredientId, answer) ==
    /\ DeleteOnly
    /\ RowsListed
    /\ ingredientId \in RowIds
    /\ deletes = {}
    /\ toasts + errors < MaxSubmits
    /\ confirmed' = [row |-> ingredientId, answer |-> answer]
    /\ deletes' = deletes \cup {ingredientId}
    /\ UNCHANGED <<queries, toasts, errors>>

\* The trash button of a row (not loading: no delete is pending) calls
\* handleDelete(ingredientId); answer is what window.confirm returns.
handleDelete(ingredientId, answer) ==
    /\ DeleteOnly
    /\ RowsListed
    /\ ingredientId \in RowIds
    /\ deletes = {}
    /\ toasts + errors < MaxSubmits
    /\ confirmed' = [row |-> ingredientId, answer |-> answer]
    /\ deletes' = IF answer THEN deletes \cup {ingredientId} ELSE deletes
    /\ UNCHANGED <<queries, toasts, errors>>

\* The delete request of a row settles: onSuccess (showSuccessToast) or
\* onError (handleError), then onSettled.
deleteMutation_settles(ingredientId, ok) ==
    /\ DeleteOnly
    /\ ingredientId \in deletes
    /\ deletes' = deletes \ {ingredientId}
    /\ toasts' = IF ok THEN toasts + 1 ELSE toasts
    /\ errors' = IF ok THEN errors ELSE errors + 1
    /\ queries' = RecipeIngredients_onSettled(queries)
    /\ UNCHANGED confirmed

\* The AddRecipeIngredient dialog that RecipeIngredients renders above the
\* rows sends its request.
AddRecipeIngredient_mutate == Mutate("createRecipeIngredient")

DeleteNext ==
    \/ FetchRecipeIngredients
    \/ AddRecipeIngredient_mutate
    \/ \E ok \in BOOLEAN : SettleCreateRecipeIngredient(ok)
    \/ \E id \in RowIds, answer \in BOOLEAN : handleDelete(id, answer)
    \/ \E id \in RowIds, ok \in BOOLEAN : deleteMutation_settles(id, ok)

---------------------------------------------------------------------------
(* PantryTable: the Expired and Soon badges of a row. An instant is a       *)
(* number of milliseconds; an expiration_date is a day, counted from the    *)
(* day instant 0 lies in.                                                   *)

\* 1000 * 60 * 60 * 24
MS_PER_DAY == 1000 * 60 * 60 * 24

\* new Date(expirationDate).getTime(): a date without a time is midnight UTC
getTime(day) == day * MS_PER_DAY

\* Math.ceil(a / b) for b > 0
MathCeilDiv(a, b) == IF a % b = 0 THEN a \div b ELSE (a \div b) + 1

isExpiringSoon(expDate, now) ==
    IF expDate = <<>> THEN FALSE
    ELSE LET daysUntilExpiry == MathCeilDiv(getTime(expDate[1]) - now, MS_PER_DAY)
         IN  daysUntilExpiry <= 7 /\ daysUntilExpiry >= 0

isExpired(expDate, now) ==
    IF expDate = <<>> THEN FALSE
    ELSE getTime(expDate[1]) < now

\* The badges of the Expiration cell. Each call of isExpired and of
\* isExpiringSoon reads the clock itself (const today = new Date()): now1 and
\* now2 are the instants the two calls of isExpired read, now3 the one
\* isExpiringSoon reads.
ExpirationCell(expDate, now1, now2, now3) ==
    IF expDate # <<>>
    THEN {b \in {"Expired"} : isExpired(expDate, now1)}
         \cup {b \in {"Soon"} : ~isExpired(expDate, now2) /\ isExpiringSoon(expDate, now3)}
    ELSE {}

\* The times of day tried: midnight, just after it, noon, just before the next
TimesOfDay == {0, 1, MS_PER_DAY \div 2, MS_PER_DAY - 1}

\* The instants at which a render starts
Instants == {getTime(d) + ms : d \in 0..MaxDay, ms \in TimesOfDay}

\* The milliseconds the clock can advance between two reads of one render
Ticks == {0, 1}

PantryInit ==
    /\ expirationDate \in {<<>>} \cup {<<d>> : d \in 0..MaxDay}
    /\ today = <<>>
    /\ badges = <<>>

PantryOff ==
    /\ expirationDate = <<>>
    /\ today = <<>>
    /\ badges = <<>>

\* The row is rendered at instant now; the clock advances by tick1 before the
\* second read and by tick2 before the third.
RenderRow(now, tick1, tick2) ==
    /\ PantryOnly
    /\ today' = <<now, now + tick1, now + tick1 + tick2>>
    /\ badges' = <<ExpirationCell(expirationDate, today'[1], today'[2], today'[3])>>
    /\ UNCHANGED expirationDate

PantryNext ==
    \E now \in Instants, tick1 \in Ticks, tick2 \in Ticks : RenderRow(now, tick1, tick2)

---------------------------------------------------------------------------
(* Specifications *)

FormatNext ==
    \/ CallFormatTimeList
    \/ CallFormatTimeDetail
    \/ CallFormatTimeCard

InitFormat == FormatInit /\ PagesOff /\ CacheOff /\ CrudOff /\ CardOff /\ DialogOff /\ FormOff /\ DeleteOff /\ PantryOff

\* formatTime applied to every argument
SpecFormat == InitFormat /\ [][FormatNext]_vars

Init == FormatOff /\ PagesInit /\ CacheOff /\ CrudOff /\ CardOff /\ DialogOff /\ FormOff /\ DeleteOff /\ PantryOff

Next == PagesNext

\* A page, from its mount on
Spec == Init /\ [][Next]_vars

InitCache == FormatOff /\ PagesOff /\ CacheInit /\ CrudOff /\ CardOff /\ DialogOff /\ FormOff /\ DeleteOff /\ PantryOff

\* The mutations and the query cache
SpecCache == InitCache /\ [][CacheNext]_vars

InitCrud == FormatOff /\ PagesOff /\ CacheOff /\ CrudInit /\ CardOff /\ DialogOff /\ FormOff /\ DeleteOff /\ PantryOff

\* The service operations of the screens
SpecCrud == InitCrud /\ [][CrudNext]_vars

InitCard == FormatOff /\ PagesOff /\ CacheOff /\ CrudOff /\ CardInit /\ DialogOff /\ FormOff /\ DeleteOff /\ PantryOff

\* A suggestion card rendered for every suggestion
SpecCard == InitCard /\ [][CardNext]_vars

InitDialog == FormatOff /\ PagesOff /\ CacheOff /\ CrudOff /\ CardOff /\ DialogInit /\ FormOff /\ DeleteOff /\ PantryOff

\* The dialogs and their requests
SpecDialog == InitDialog /\ [][DialogNext]_vars

InitForm == FormatOff /\ PagesOff /\ CacheOff /\ CrudOff /\ CardOff /\ DialogOff /\ FormInit /\ DeleteOff /\ PantryOff

\* The forms and the request bodies
SpecForm == InitForm /\ [][FormNext]_vars

InitDelete ==
    FormatOff /\ PagesOff /\ CacheInit /\ CrudOff /\ CardOff /\ DialogOff /\ FormOff /\ DeleteInit /\ PantryOff

\* RecipeIngredients and its delete requests
SpecDelete == InitDelete /\ [][DeleteNext]_vars

---------------------------------------------------------------------------
(* Claims about removing a recipe ingredient, under SpecDelete *)

RowsKey == <<"recipe-ingredients", ThisRecipe>>

\* C20: a deleteRecipeIngredient request goes out only in a step whose
\* confirmation prompt was for that row and was accepted; a step whose
\* prompt was declined sends no request, shows no toast and leaves the
\* ["recipe-ingredients", recipeId] query as it was.
C20_DeleteOnlyConfirmed ==
    [][ /\ \A id \in RowIds :
            id \in deletes' /\ id \notin deletes =>
                confirmed' = [row |-> id, answer |-> TRUE]
        /\ confirmed' # confirmed /\ ~confirmed'.answer =>
            /\ deletes' = deletes
            /\ toasts' = toasts
            /\ errors' = errors
            /\ queries'[RowsKey] = queries[RowsKey]
      ]_vars

\* The prompt for a row was declined after the list was fetched: no request
\* is out, no toast was shown and the list is still fresh.
C20_Witness ==
    /\ confirmed = [row |-> "i1", answer |-> FALSE]
    /\ deletes = {}
    /\ toasts = 0
    /\ errors = 0
    /\ queries[RowsKey] = "fresh"

InitAddress ==
    FormatOff /\ AddressInit /\ CacheOff /\ CrudOff /\ CardOff /\ DialogOff /\ FormOff /\ DeleteOff /\ PantryOff

\* The paginated pages under every value of the page parameter
SpecAddress == InitAddress /\ [][AddressNext]_vars

InitPantry ==
    FormatOff /\ PagesOff /\ CacheOff /\ CrudOff /\ CardOff /\ DialogOff /\ FormOff /\ DeleteOff /\ PantryInit

\* The badges of a pantry row
SpecPantry == InitPantry /\ [][PantryNext]_vars

---------------------------------------------------------------------------
(* Claims about the forms, under SpecForm *)

\* Ten to the k
RECURSIVE Pow10(_)
Pow10(k) == IF k = 0 THEN 1 ELSE 10 * Pow10(k - 1)

\* The integer a text of decimal digits writes: each digit times the power
\* of ten of its place.
RECURSIVE PlaceValue(_)
PlaceValue(text) ==
    IF text = <<>> THEN 0
    ELSE DigitOf(Head(text)) * Pow10(Len(text) - 1) + PlaceValue(Tail(text))

OnlyDigits(text) ==
    \A i \in 1..Len(text) : text[i] \in {"0", "1", "2", "3", "4", "5", "6", "7", "8", "9"}

RecipeRequest == sent.op \in {"createRecipe", "updateRecipe"}

\* C18: the body of every createRecipe and updateRecipe request has a
\* non-empty name, and each of prep_time_minutes, cook_time_minutes and
\* servings is absent or the non-negative integer whose decimal digits the
\* user entered; a form with an empty name or with a numeric text that is
\* not all digits sends no request.
C18_RecipeBody ==
    RecipeRequest =>
        /\ "name" \in DOMAIN sent.body
        /\ sent.body["name"].t = "string"
        /\ sent.body["name"].s # <<>>
        /\ formData["name"] # <<>>
        /\ \A f \in NumericFields :
            /\ formData[f] = <<>> \/ (formData[f] # <<>> /\ OnlyDigits(formData[f]))
            /\ \/ f \notin DOMAIN sent.body
               \/ /\ sent.body[f].t = "number"
                  /\ sent.body[f].n >= 0
                  /\ formData[f] # <<>>
                  /\ OnlyDigits(formData[f])
                  /\ sent.body[f].n = PlaceValue(formData[f])

\* A createRecipe request of a form with "07" minutes of preparation and no
\* servings
C18_Witness ==
    /\ sent.op = "createRecipe"
    /\ formData["prep_time_minutes"] = <<"0", "7">>
    /\ sent.body["prep_time_minutes"] = vNumber(7)
    /\ "servings" \notin DOMAIN sent.body

OptionalFields == FieldsOf(dialog) \ {"name", "unit"}

\* C19: in an updateRecipe or updateIngredient request, an optional field
\* the entity has a value for and the user cleared is not in the body.
C19_ClearedFieldOmitted ==
    sent.op \in {"updateRecipe", "updateIngredient"} =>
        \A f \in OptionalFields :
            entity[f] # vNull /\ formData[f] = <<>> => f \notin DOMAIN sent.body

\* An updateRecipe request after the description and the servings of a
\* recipe that had both were cleared; the cuisine is still sent.
C19_Witness ==
    /\ sent.op = "updateRecipe"
    /\ entity["description"] # vNull
    /\ entity["servings"] # vNull
    /\ formData["description"] = <<>>
    /\ formData["servings"] = <<>>
    /\ DOMAIN sent.body = RecipeFields \ {"description", "servings"}

---------------------------------------------------------------------------
(* Claims about the dialogs, under SpecDialog *)

\* C15: each of the four Add dialogs has at most one create request in
\* flight at any time.
C15_OneCreateInFlight == \A d \in AddDialogs : calls[MutationOf(d)] <= 1

\* A request of some dialog fails in this step.
RequestFails == \E d \in Dialogs : Settle(d, FALSE)

\* A request succeeds in this step: its success toast is shown.
RequestSucceeds == toasts' = toasts + 1

\* C16: a failing create or update request leaves every dialog as open as it
\* was and every form with the values it had, shows no success toast and
\* calls handleError once; a dialog is closed by a success or by the user
\* only, and the form of an Add dialog goes back to its defaults by a success
\* only.
C16_FailureKeepsDialog ==
    [][ /\ RequestFails =>
            /\ isOpen' = isOpen
            /\ form' = form
            /\ toasts' = toasts
            /\ errors' = errors + 1
        /\ \A d \in Dialogs :
            isOpen[d] /\ ~isOpen'[d] => RequestSucceeds \/ CloseDialog(d)
        /\ \A d \in AddDialogs :
            form[d] # "defaults" /\ form'[d] = "defaults" => RequestSucceeds
      ]_vars

\* A createRecipe request failed: the Add Recipe dialog is open with the
\* entered values, an error was handled and no success toast was shown.
C16_Witness ==
    /\ errors = 1
    /\ toasts = 0
    /\ calls["createRecipe"] = 0
    /\ isOpen["AddRecipe"]
    /\ form["AddRecipe"] = "entered"

\* C17: submitting the Add Ingredient to Recipe form sends exactly one
\* createRecipeIngredient request and no updateRecipe request, also when the
\* form is rendered inside the Edit Recipe form; an updateRecipe request is
\* sent by a submit of the Edit Recipe form only.
C17_NestedSubmitOnlyCreates ==
    [][ /\ Submit("AddRecipeIngredient") =>
            /\ calls'["createRecipeIngredient"] = calls["createRecipeIngredient"] + 1
            /\ calls'["updateRecipe"] = calls["updateRecipe"]
        /\ calls'["updateRecipe"] > calls["updateRecipe"] =>
            /\ OnTop("EditRecipe")
            /\ calls' = onSubmit(calls, "EditRecipe")
      ]_vars

---------------------------------------------------------------------------
(* Claims about the mutations and the query cache, under SpecCache *)

\* The key prefixes of the entity kind a mutation changes.
SameKindPrefixes(m) ==
    CASE m = "createIngredient" -> {<<"ingredients">>}
      [] m = "updateIngredient" -> {<<"ingredients">>}
      [] m = "createRecipe" -> {<<"recipes">>}
      [] m = "updateRecipe" -> {<<"recipes">>, <<"recipe", ThisRecipe>>}
      [] m = "createRecipeIngredient" -> {<<"recipe-ingredients", ThisRecipe>>}
      [] m = "deleteRecipeIngredient" -> {<<"recipe-ingredients", ThisRecipe>>}
      [] m = "createUserIngredient" -> {<<"user-ingredients">>}

\* The key prefixes of the queries of other kinds whose results embed or
\* depend on what a mutation changes.
DependentPrefixes(m) ==
    CASE m = "createUserIngredient" -> {<<"recipe-suggestions">>}
      [] m = "createRecipeIngredient" -> {<<"recipe-suggestions">>}
      [] m = "deleteRecipeIngredient" -> {<<"recipe-suggestions">>}
      [] m = "updateIngredient" -> {<<"recipe-ingredients">>, <<"user-ingredients">>}
      [] OTHER -> {}

Cached(k) == queries[k] # "absent"

\* C1: in the step in which a mutation settles, with success or with failure,
\* every cached query of the mutation's own entity kind becomes invalidated.
C1_SameKindInvalidated ==
    [][\A m \in pending \ pending' :
         \A k \in QueryKeys :
            (Cached(k) /\ \E pf \in SameKindPrefixes(m) : partialMatchKey(k, pf))
               => queries'[k] = "invalidated"]_vars

\* C1, witness: a mutation has failed, and the cached list of ingredients, the
\* only cached query, is invalidated.
C1_Witness ==
    /\ toast = "error"
    /\ pending = {}
    /\ queries[<<"ingredients", Params>>] = "invalidated"
    /\ \A k \in QueryKeys \ {<<"ingredients", Params>>} : ~Cached(k)

\* C8: in the step in which a mutation settles, every cached query of another
\* kind whose result depends on the changed data becomes invalidated:
\* recipe-suggestions after createUserIngredient, createRecipeIngredient and
\* deleteRecipeIngredient; recipe-ingredients and user-ingredients after
\* updateIngredient.
C8_DependentInvalidated ==
    [][\A m \in pending \ pending' :
         \A k \in QueryKeys :
            (Cached(k) /\ \E pf \in DependentPrefixes(m) : partialMatchKey(k, pf))
               => queries'[k] = "invalidated"]_vars

---------------------------------------------------------------------------
(* Claims about the service operations of the screens, under SpecCrud *)

\* The screen that lists kind k can be opened: the links of a recipe are
\* listed inside the Edit Recipe dialog and the detail page of a recipe shown.
ScreenOpen(k) == k = "recipe-ingredients" => seen["recipes"] # {}

\* The operations of the screens that read, update and delete entity i of
\* kind k.
ReadOp(k, i) ==
    /\ \/ k = "ingredients" /\ readIngredients
       \/ k = "recipes" /\ readRecipes
       \/ k = "recipe-ingredients" /\ readRecipeIngredients
       \/ k = "user-ingredients" /\ readUserIngredients
    /\ i \in seen'[k]

UpdateOp(k, i) ==
    \/ k = "ingredients" /\ updateIngredient(i)
    \/ k = "recipes" /\ updateRecipe(i)

DeleteOp(k, i) == k = "recipe-ingredients" /\ deleteRecipeIngredient(i)

\* C10, as claimed: whatever its kind, every entity there is can be read on
\* its screen, and every entity shown there can be updated and can be deleted
\* from there.
C10_CrudComplete ==
    \A k \in Kinds, i \in Ids :
        /\ (Exists(k, i) /\ ScreenOpen(k)) => ENABLED ReadOp(k, i)
        /\ (Exists(k, i) /\ i \in seen[k]) => ENABLED UpdateOp(k, i)
        /\ (Exists(k, i) /\ i \in seen[k]) => ENABLED DeleteOp(k, i)

\* C10, amended: every entity there is can be read; an ingredient or a recipe
\* shown can be updated and is never deleted; a recipe-ingredient link shown
\* can be deleted and is never updated; a pantry item is never updated and
\* never deleted.
C10_CrudAsOffered ==
    \A i \in Ids :
        /\ \A k \in Kinds : (Exists(k, i) /\ ScreenOpen(k)) => ENABLED ReadOp(k, i)
        /\ \A k \in {"ingredients", "recipes"} :
              /\ (Exists(k, i) /\ i \in seen[k]) => ENABLED UpdateOp(k, i)
              /\ store[k][i] # "deleted"
        /\ (Exists("recipe-ingredients", i) /\ i \in seen["recipe-ingredients"])
              => ENABLED DeleteOp("recipe-ingredients", i)
        /\ store["recipe-ingredients"][i] # "updated"
        /\ store["user-ingredients"][i] \notin {"updated", "deleted"}

\* C10, witness: an ingredient was created, read and updated, a link was
\* created, read and deleted, and a pantry item was created and read.
C10_Witness ==
    \E i \in Ids :
        /\ store["ingredients"][i] = "updated"
        /\ store["recipe-ingredients"][i] = "deleted"
        /\ store["user-ingredients"][i] = "created"
        /\ i \in seen["user-ingredients"]

---------------------------------------------------------------------------
(* Claims about the suggestion card, under SpecCard *)

\* C11: the badge shows the integer nearest to match_score * 100 (a half
\* rounded up); it is green iff match_score >= 0.8, orange iff
\* 0.6 <= match_score < 0.8 and red iff match_score < 0.6; the progress bar
\* has the colour of the badge.
C11_BadgeAndBar ==
    LET s == suggestion.match_score
    IN  /\ badge # NotRendered =>
              /\ 2 * badge.percent * ScoreScale - ScoreScale <= 2 * 100 * s
              /\ 2 * 100 * s < 2 * badge.percent * ScoreScale + ScoreScale
              /\ badge.colorPalette \in {"green", "orange", "red"}
              /\ badge.colorPalette = "green" <=> 10 * s >= 8 * ScoreScale
              /\ badge.colorPalette = "orange" <=>
                    (10 * s >= 6 * ScoreScale /\ 10 * s < 8 * ScoreScale)
              /\ badge.colorPalette = "red" <=> 10 * s < 6 * ScoreScale
        /\ (badge # NotRendered /\ progress # NotRendered) =>
              progress.colorPalette = badge.colorPalette

\* C11, witness: a card with match_score exactly 0.8 shows a green badge with
\* 80 and a green bar.
C11_Witness ==
    /\ 10 * suggestion.match_score = 8 * ScoreScale
    /\ badge = [colorPalette |-> "green", percent |-> 80]
    /\ progress # NotRendered
    /\ progress.colorPalette = "green"

\* C12: the value of the progress bar is available_count / total_ingredients
\* * 100 and is a number from 0 to 100, for every suggestion rendered, one with
\* total_ingredients = 0 included.
C12_BarInRange ==
    progress # NotRendered =>
        /\ progress.value.t = "number"
        /\ progress.value.d > 0
        /\ progress.value.n * suggestion.total_ingredients
              = 100 * suggestion.available_count * progress.value.d
        /\ progress.value.n >= 0
        /\ progress.value.n <= 100 * progress.value.d

---------------------------------------------------------------------------
(* Claims about formatTime, under SpecFormat *)

\* What the claim says formatTime prints for m minutes, m > 0.
Printed(m) ==
    LET h == m \div 60
        r == m % 60
    IN  IF m < 60 THEN ToString(m) \o "m"
        ELSE IF r = 0 THEN ToString(h) \o "h"
        ELSE ToString(h) \o "h " \o ToString(r) \o "m"

\* C5: for a positive number of minutes each copy of formatTime returns the
\* minutes below an hour, the whole hours, or hours and minutes, with
\* h * 60 + r = m and 0 <= r < 60, and the three copies agree; for null,
\* undefined and 0 the list copy returns "N/A" and the other two null.
C5_FormatTime ==
    /\ (minutes.t = "number" /\ minutes.n > 0) =>
          /\ (minutes.n \div 60) * 60 + (minutes.n % 60) = minutes.n
          /\ (minutes.n % 60) >= 0 /\ (minutes.n % 60) < 60
          /\ \A c \in {"list", "detail", "card"} :
                cell[c] # NotCalled => cell[c] = JStr(Printed(minutes.n))
    /\ (minutes \in {JNull, JUndefined, JNum(0)}) =>
          /\ cell.list # NotCalled => cell.list = JStr("N/A")
          /\ cell.detail # NotCalled => cell.detail = JNull
          /\ cell.card # NotCalled => cell.card = JNull

\* C5, witness: the three copies have formatted an hour and a half.
C5_Witness ==
    /\ minutes = JNum(90)
    /\ cell = [list |-> JStr("1h 30m"), detail |-> JStr("1h 30m"), card |-> JStr("1h 30m")]

---------------------------------------------------------------------------
(* Claims about the pages *)

\* The request a page sends carries the validated search parameters s.
CarriesParams(r, req, s) ==
    CASE r \in SearchRoutes ->
            /\ req.skip = (s.page - 1) * PER_PAGE
            /\ \/ s.search = "" /\ req.search = <<>>
               \/ s.search # "" /\ req.search = <<s.search>>
      [] r = "pantry" ->
            /\ req.skip = (s.page - 1) * PER_PAGE
            /\ req.expiringSoon = s.expiring_soon
      [] r = "suggestions" ->
            /\ req.minMatchScore = s.min_match_score
            /\ req.limit = s.limit

\* C2: every list request carries the validated search parameters of the
\* address bar at the time it is sent; editing the search box or a slider
\* changes neither the address bar nor the requests; Enter and Update
\* Suggestions write exactly the control's value into the address bar.
C2_RequestsFollowUrl ==
    /\ \A k \in DOMAIN inflight :
          CarriesParams(route, inflight[k], validateSearch(route, url))
    /\ [][/\ \A k \in DOMAIN inflight' \ DOMAIN inflight :
                CarriesParams(route', inflight'[k], validateSearch(route', url'))
          /\ ((\E v \in SearchTexts : SetSearchInput(v))
                 \/ (\E v \in SliderScores : SetMinMatchScore(v))
                 \/ (\E v \in SliderLimits : SetMaxResults(v)))
                => (url' = url /\ inflight' = inflight)
          /\ KeyDownEnter =>
                /\ url'.search = JStr(searchInput)
                /\ validateSearch(route', url').search = searchInput
          /\ UpdateSuggestions =>
                /\ url'.min_match_score = JNum(minMatchScore)
                /\ url'.limit = JNum(maxResults)
                /\ validateSearch(route', url').min_match_score = minMatchScore
                /\ validateSearch(route', url').limit = maxResults]_vars

\* C2, witness: on the recipes page the search box holds an uncommitted text
\* while the request out is the one for the committed search "a".
C2_Witness ==
    /\ route = "recipes"
    /\ searchInput = ""
    /\ url.search = JStr("a")
    /\ url.tab = JStr("k")
    /\ CurKey \in DOMAIN inflight
    /\ inflight[CurKey].search = <<"a">>

OtherParamsKept(keys) == \A x \in UrlKeys \ keys : url'[x] = url[x]

\* C3: committing a filter sets the page parameter to 1 and changes only that
\* filter; setPage changes only the page parameter.
C3_CommitFrame ==
    [][/\ KeyDownEnter =>
             /\ url'.page = JNum(1)
             /\ url'.search = JStr(searchInput)
             /\ OtherParamsKept({"page", "search"})
       /\ CheckedChange =>
             /\ url'.page = JNum(1)
             /\ url'.expiring_soon = JBool(~validateSearch(route, url).expiring_soon)
             /\ OtherParamsKept({"page", "expiring_soon"})
       /\ \A page \in PaginationPages :
             PageChange(page) =>
                /\ url'.page = JNum(page)
                /\ OtherParamsKept({"page"})]_vars

\* C3, witness: a search was committed on a page whose address carries a
\* parameter the page does not know; the parameter is still there.
C3_Witness ==
    /\ route \in SearchRoutes
    /\ url.tab = JStr("k")
    /\ url.search = JStr("a")
    /\ url.page = JNum(1)

\* C4: the request for page p asks for skip = (p - 1) * 10 and limit = 10, and
\* the table never shows more than 10 rows.
C4_PageWindow ==
    route \in PagedRoutes =>
        /\ \A k \in DOMAIN inflight :
              /\ inflight[k].skip = (k[2].page - 1) * PER_PAGE
              /\ inflight[k].limit = PER_PAGE
        /\ CurKey \in DOMAIN inflight =>
              inflight[CurKey].skip = (validateSearch(route, url).page - 1) * PER_PAGE
        /\ Len(Rows) <= PER_PAGE

\* C4, witness: the service returned more than 10 rows for the page shown, 10
\* are shown, and a request for page 2 is out.
C4_Witness ==
    /\ route \in PagedRoutes
    /\ CurKey \in DOMAIN cache
    /\ Len(cache[CurKey].data) > PER_PAGE
    /\ Len(Rows) = PER_PAGE
    /\ \E k \in DOMAIN inflight : k[2].page = 2 /\ inflight[k].skip = PER_PAGE

\* C6: the cards are the suggestions of the response, all of them and in the
\* order of the response: of the response to the current parameters, or, while
\* that is awaited, of the last response shown.
C6_CardsAreResponse ==
    route = "suggestions" =>
        /\ CurKey \in DOMAIN cache => suggestions = cache[CurKey].data
        /\ (CurKey \notin DOMAIN cache /\ lastKey # {}) =>
              \E k \in lastKey : suggestions = cache[k].data
        /\ (CurKey \notin DOMAIN cache /\ lastKey = {}) => suggestions = <<>>

\* C6, witness: two cards are shown although the limit asked for is 1, one of
\* them under the minimum score asked for.
C6_Witness ==
    /\ route = "suggestions"
    /\ CurKey \in DOMAIN cache
    /\ validateSearch(route, url).limit = 1
    /\ Len(suggestions) = 2
    /\ \E i \in 1..Len(suggestions) :
          suggestions[i].match_score < validateSearch(route, url).min_match_score

Ranked(s) ==
    \A i \in 1..Len(s), j \in 1..Len(s) : i < j => s[i].match_score >= s[j].match_score

\* C7, as claimed: the cards are always in non-increasing order of
\* match_score.
C7_CardsRanked == route = "suggestions" => Ranked(suggestions)

\* C7, amended: the cards are in non-increasing order of match_score whenever
\* the response shown is; the page does not rank.
C7_CardsRankedAsResponse ==
    (route = "suggestions" /\ Data # <<>> /\ Ranked(Data[1].data)) => Ranked(suggestions)

\* C7, witness: a ranked response of two suggestions is shown.
C7_Witness ==
    /\ route = "suggestions"
    /\ CurKey \in DOMAIN cache
    /\ Len(cache[CurKey].data) = 2
    /\ Ranked(cache[CurKey].data)
    /\ Len(suggestions) = 2

\* C13: every getRecipeSuggestions request carries minMatchScore within
\* [0, 1] and limit within [1, 50]; the request for an address whose value is
\* out of range or not a number carries the default, 0.3 or 10; the sliders,
\* whose values Update Suggestions writes to the address, stay in the ranges.
C13_SuggestionRanges ==
    route = "suggestions" =>
        /\ \A k \in DOMAIN inflight :
              /\ inflight[k].minMatchScore >= 0
              /\ inflight[k].minMatchScore <= ScoreScale
              /\ inflight[k].limit >= 1
              /\ inflight[k].limit <= 50
        /\ CurKey \in DOMAIN inflight =>
              /\ ~(url.min_match_score.t = "number" /\ url.min_match_score.n >= 0
                      /\ url.min_match_score.n <= ScoreScale)
                    => 10 * inflight[CurKey].minMatchScore = 3 * ScoreScale
              /\ ~(url.limit.t = "number" /\ url.limit.n >= 1 /\ url.limit.n <= 50)
                    => inflight[CurKey].limit = 10
        /\ minMatchScore >= 0 /\ minMatchScore <= ScoreScale
        /\ maxResults >= 1 /\ maxResults <= 50

\* C13, witness: after an answered request the address holds a score over 1
\* and a limit under 1, and the request out carries 0.3 and 10.
C13_Witness ==
    /\ route = "suggestions"
    /\ url.min_match_score.t = "number" /\ url.min_match_score.n > ScoreScale
    /\ url.limit = JNum(0)
    /\ DOMAIN cache # {}
    /\ CurKey \in DOMAIN inflight
    /\ 10 * inflight[CurKey].minMatchScore = 3 * ScoreScale
    /\ inflight[CurKey].limit = 10

\* The first n elements of s, at most.
FirstRows(s, n) == [i \in 1..(IF Len(s) < n THEN Len(s) ELSE n) |-> s[i]]

C9_ControlsFollowUrl ==
    [][url' # url =>
          /\ route' \in SearchRoutes =>
                searchInput' = validateSearch(route', url').search
          /\ route' = "suggestions" =>
                /\ minMatchScore' = validateSearch(route', url').min_match_score
                /\ maxResults' = validateSearch(route', url').limit]_vars

\* C23: on the paginated pages the pagination control is rendered, and a
\* page change can be made, exactly when rows are displayed; when the
\* response for the page of the address bar has no rows and a positive
\* count, the empty state is shown and no page change can be made.
C23_PaginationIffRows ==
    route \in PagedRoutes =>
        /\ PaginationRoot <=> Len(Rows) # 0
        /\ (ENABLED (\E page \in PaginationPages : PageChange(page))) <=> Len(Rows) # 0
        /\ CurKey \in DOMAIN cache /\ Len(Rows) = 0 /\ Count > 0 =>
              EmptyState /\ ~PaginationRoot

\* Page 2 of a list was answered with no rows and a positive count: the
\* empty state is shown.
C23_Witness ==
    /\ route \in PagedRoutes
    /\ validateSearch(route, url).page = 2
    /\ CurKey \in DOMAIN cache
    /\ Len(Rows) = 0
    /\ Count > 0
    /\ EmptyState

---------------------------------------------------------------------------
(* Claims about the page parameter, under SpecAddress *)

\* C21: every skip sent to readIngredients, readRecipes and
\* readUserIngredients is a non-negative multiple of 10, whatever the page
\* parameter of the address bar is.
C21_SkipMultipleOfTen ==
    \A k \in DOMAIN inflight :
        /\ inflight[k].skip >= 0
        /\ inflight[k].skip % 10 = 0

---------------------------------------------------------------------------
(* Claims about the badges of a pantry row, under SpecPantry *)

\* The least number of whole days that reach from now to the instant exp
DaysToReach(exp, now) ==
    CHOOSE d \in (0 - MaxDay - 2)..(MaxDay + 2) :
        /\ d * MS_PER_DAY >= exp - now
        /\ (d - 1) * MS_PER_DAY < exp - now

\* C22: a rendered row shows at most one of Expired and Soon, and none
\* without an expiration date; with the current instant taken to be any of
\* the instants the render read, Expired is shown iff the expiration instant
\* is strictly before it, Soon iff the row is not expired and the days until
\* expiry, rounded up, are 0 to 7.
C22_ExpirationBadges ==
    badges # <<>> =>
        /\ badges[1] \subseteq {"Expired", "Soon"}
        /\ Cardinality(badges[1]) <= 1
        /\ expirationDate = <<>> => badges[1] = {}
        /\ expirationDate # <<>> =>
            \E i \in 1..Len(today) :
                LET exp == expirationDate[1] * 86400000
                    expired == exp < today[i]
                IN  /\ "Expired" \in badges[1] <=> expired
                    /\ "Soon" \in badges[1] <=>
                          ~expired /\ DaysToReach(exp, today[i]) \in 0..7

=============================================================================
